---- MODULE Spec2Model ----
(***************************************************************************)
(* Model of the Ozlo firmware downloader: the XML index parser             *)
(* (firmware_parser.py), the artifact fetcher (firmware_downloader.py) and  *)
(* the driver (main.py).                                                    *)
(*                                                                          *)
(* Strings are sequences of one-character strings, so that joining paths,   *)
(* lower-casing digests and splitting on the separator are computed.        *)
(***************************************************************************)
EXTENDS Integers, Sequences, FiniteSets, TLC

\* ------------------------------------------------------------------ bounds
MaxImages == 2     \* IMAGE elements in a served index
MaxAdded == 3      \* elements added to a document handed to the parser alone
MaxNameLen == 2    \* characters of a channel / filename given to path construction

\* ----------------------------------------------------------------- strings
Sep == "/"

StartsWithSep(s) == Len(s) > 0 /\ s[1] = Sep

EndsWithSep(s) == Len(s) > 0 /\ s[Len(s)] = Sep

LowerChar(c) == IF c = "A" THEN "a" ELSE IF c = "B" THEN "b" ELSE c

\* str.lower()
Lower(s) == [k \in 1..Len(s) |-> LowerChar(s[k])]

\* posixpath.join(a, b) for one further component
JoinOne(path, b) ==
    IF StartsWithSep(b) THEN b
    ELSE IF path = <<>> \/ EndsWithSep(path) THEN path \o b
    ELSE path \o <<Sep>> \o b

RECURSIVE os_path_join(_, _)
os_path_join(a, ps) ==
    IF ps = <<>> THEN a ELSE os_path_join(JoinOne(a, Head(ps)), Tail(ps))

\* index of the last separator of p, 0 when there is none
LastSep(p) ==
    LET S == {k \in 1..Len(p) : p[k] = Sep}
    IN  IF S = {} THEN 0 ELSE CHOOSE k \in S : \A m \in S : m <= k

RECURSIVE StripTrailingSeps(_)
StripTrailingSeps(p) ==
    IF p # <<>> /\ EndsWithSep(p) THEN StripTrailingSeps(SubSeq(p, 1, Len(p) - 1))
    ELSE p

\* posixpath.dirname
os_path_dirname(p) ==
    LET head == SubSeq(p, 1, LastSep(p))
    IN  IF head # <<>> /\ \E k \in 1..Len(head) : head[k] # Sep
        THEN StripTrailingSeps(head)
        ELSE head

\* ------------------------------------------------------------------ parser
\* A well-formed document is its elements in document order, each with its
\* nesting depth (the root has depth 0), its tag and its attributes.
Element(depth, tag, attrs) == [depth |-> depth, tag |-> tag, attrs |-> attrs]

\* ET.Element.get(name, default)
get(elem, name, default) ==
    IF name \in DOMAIN elem.attrs THEN elem.attrs[name] ELSE default

RECURSIVE SortedSeq(_)
SortedSeq(S) ==
    IF S = {} THEN <<>>
    ELSE LET m == CHOOSE x \in S : \A y \in S : x <= y
         IN  <<m>> \o SortedSeq(S \ {m})

\* positions of the direct children of element k
ChildIdx(doc, k) ==
    {j \in (k + 1)..Len(doc) :
        /\ doc[j].depth = doc[k].depth + 1
        /\ \A m \in (k + 1)..j : doc[m].depth > doc[k].depth}

\* "for child in elem": the direct children, in document order
Children(doc, k) == SortedSeq(ChildIdx(doc, k))

FirmwareIndex == [revision |-> <<>>, devices |-> <<>>]

\* LENGTH, TARGET and SUBID (integers, 0 when absent or unparsable) are read by
\* nothing after the parse and are left out
_parse_image(doc, k) ==
    [filename |-> get(doc[k], "FILENAME", <<>>),
     md5 |-> get(doc[k], "MD5", <<>>),
     nxh_version |-> get(doc[k], "NXH_VERSION", <<>>),
     l_bud_version |-> get(doc[k], "L_BUD_VERSION", <<>>),
     r_bud_version |-> get(doc[k], "R_BUD_VERSION", <<>>),
     revision |-> get(doc[k], "REVISION", <<>>),
     build_id |-> get(doc[k], "BUILD_ID", <<>>)]

RECURSIVE ImageLoop(_, _)
ImageLoop(doc, kids) ==
    IF kids = <<>> THEN <<>>
    ELSE (IF doc[Head(kids)].tag = "IMAGE"
          THEN <<_parse_image(doc, Head(kids))>> ELSE <<>>)
         \o ImageLoop(doc, Tail(kids))

_parse_release(doc, k) ==
    [channel |-> get(doc[k], "CHANNEL", <<>>),
     date |-> get(doc[k], "DATE", <<>>),
     httphost |-> get(doc[k], "HTTPHOST", <<>>),
     urlpath |-> get(doc[k], "URLPATH", <<>>),
     revision |-> get(doc[k], "REVISION", <<>>),
     images |-> ImageLoop(doc, Children(doc, k))]

RECURSIVE ReleaseLoop(_, _)
ReleaseLoop(doc, kids) ==
    IF kids = <<>> THEN <<>>
    ELSE (IF doc[Head(kids)].tag = "RELEASE"
          THEN <<_parse_release(doc, Head(kids))>> ELSE <<>>)
         \o ReleaseLoop(doc, Tail(kids))

_parse_hardware(doc, k) ==
    [revision |-> get(doc[k], "REVISION", <<>>),
     releases |-> ReleaseLoop(doc, Children(doc, k))]

\* the loop without its test of the child's tag
RECURSIVE HardwareLoopNoFilter(_, _)
HardwareLoopNoFilter(doc, kids) ==
    IF kids = <<>> THEN <<>>
    ELSE <<_parse_hardware(doc, Head(kids))>> \o HardwareLoopNoFilter(doc, Tail(kids))

RECURSIVE HardwareLoop(_, _)
HardwareLoop(doc, kids) ==
    IF kids = <<>> THEN <<>>
    ELSE (IF doc[Head(kids)].tag = "HARDWARE"
          THEN <<_parse_hardware(doc, Head(kids))>> ELSE <<>>)
         \o HardwareLoop(doc, Tail(kids))

_parse_device(doc, k) ==
    [id |-> get(doc[k], "ID", <<>>),
     productname |-> get(doc[k], "PRODUCTNAME", <<>>),
     hardware |-> HardwareLoop(doc, Children(doc, k))]

RECURSIVE DeviceLoop(_, _)
DeviceLoop(doc, kids) ==
    IF kids = <<>> THEN <<>>
    ELSE (IF doc[Head(kids)].tag = "DEVICE"
          THEN <<_parse_device(doc, Head(kids))>> ELSE <<>>)
         \o DeviceLoop(doc, Tail(kids))

_parse_root(doc) ==
    [revision |-> get(doc[1], "REVISION", <<>>),
     devices |-> DeviceLoop(doc, Children(doc, 1))]

\* The text handed to the parser: nothing, text that is not well-formed XML,
\* or a well-formed document.
EmptyText == [kind |-> "empty", doc |-> <<>>]
MalformedText == [kind |-> "malformed", doc |-> <<>>]
DocText(doc) == [kind |-> "doc", doc |-> doc]

\* ET.fromstring raises on anything but a well-formed document
parse_from_string(xml) ==
    IF xml.kind = "doc" THEN _parse_root(xml.doc) ELSE FirmwareIndex

\* -------------------------------------------------------------- filesystem
\* The disk is the directories and files the run can touch. A directory is
\* "missing" (can be created), "writable", "readonly" (exists; entries can be
\* neither added nor removed) or "blocked" (cannot be created or entered).
\* A file is absent or has a content digest and may be unreadable.
NoEntry == [kind |-> "none", digest |-> <<>>, readable |-> FALSE]
DirEntry == [kind |-> "dir", digest |-> <<>>, readable |-> TRUE]
FileEntry(digest, readable) == [kind |-> "file", digest |-> digest, readable |-> readable]

\* hashlib's hexdigest of a complete payload: lower-case hex
Digests == {<<"a">>, <<"b">>}
\* digest of a payload that has not been written to its end
PartialDigest == <<"0">>

DirExists(disk, d) == d \in DOMAIN disk.dirs /\ disk.dirs[d] \in {"writable", "readonly"}

\* what is found at path: a path ending in the separator names its directory
Stat(disk, path) ==
    LET d == os_path_dirname(path)
    IN  IF ~DirExists(disk, d) THEN NoEntry
        ELSE IF EndsWithSep(path) THEN DirEntry
        ELSE IF path \in DOMAIN disk.files THEN disk.files[path]
        ELSE NoEntry

os_path_exists(disk, path) == Stat(disk, path).kind # "none"

\* a is d or one of its ancestors
IsAncestorOrSelf(a, d) ==
    /\ Len(a) <= Len(d)
    /\ SubSeq(d, 1, Len(a)) = a
    /\ (Len(a) = Len(d) \/ d[Len(a) + 1] = Sep)

\* Path(path).mkdir(parents=True, exist_ok=True) succeeds
CanMkdir(disk, d) ==
    d \in DOMAIN disk.dirs /\ disk.dirs[d] # "blocked"

Mkdir(disk, d) ==
    IF disk.dirs[d] # "missing" THEN disk
    ELSE [disk EXCEPT !.dirs =
            [a \in DOMAIN disk.dirs |->
                IF IsAncestorOrSelf(a, d) /\ disk.dirs[a] = "missing"
                THEN "writable" ELSE disk.dirs[a]]]

\* create_directory: the error is printed and swallowed
create_directory(disk, path) ==
    IF CanMkdir(disk, path) THEN Mkdir(disk, path) ELSE disk

\* os.remove succeeds: a regular file in a directory that can be changed
CanRemove(disk, path) ==
    /\ Stat(disk, path).kind = "file"
    /\ disk.dirs[os_path_dirname(path)] = "writable"

os_remove(disk, path) == [disk EXCEPT !.files[path] = NoEntry]

\* open(path, "wb") succeeds: creates or truncates a regular file
CanOpenForWrite(disk, path) ==
    /\ ~EndsWithSep(path)
    /\ path \in DOMAIN disk.files
    /\ DirExists(disk, os_path_dirname(path))
    /\ disk.dirs[os_path_dirname(path)] = "writable"

WriteFile(disk, path, digest) ==
    [disk EXCEPT !.files[path] = FileEntry(digest, TRUE)]

\* ---------------------------------------------------------------- fetcher
HttpsPrefix == <<"h", "t", "t", "p", "s", ":", "/", "/">>

construct_url(release, image) ==
    HttpsPrefix \o release.httphost \o release.urlpath \o image.filename

\* the path without its release-revision level
construct_output_path_no_revision(base_dir, release, image) ==
    os_path_join(base_dir, <<release.channel, release.date, image.filename>>)

construct_output_path(base_dir, release, image) ==
    os_path_join(base_dir,
        <<release.channel, release.date, release.revision, image.filename>>)

\* the hex digest, or the empty string when the file cannot be read
calculate_md5(disk, file_path) ==
    LET e == Stat(disk, file_path)
    IN  IF e.kind = "file" /\ e.readable THEN e.digest ELSE <<>>

\* the comparison without lower-casing
validate_md5_exact(disk, file_path, expected_md5) ==
    calculate_md5(disk, file_path) = expected_md5

validate_md5(disk, file_path, expected_md5) ==
    Lower(calculate_md5(disk, file_path)) = Lower(expected_md5)

\* an existing destination is kept whatever its digest
SkipIfExists(disk, output_path, md5) == os_path_exists(disk, output_path)

\* an existing destination is never kept
SkipNever(disk, output_path, md5) == FALSE

\* download_release lines 69-73: the existing destination is kept
SkipDownload(disk, output_path, md5) ==
    os_path_exists(disk, output_path) /\ validate_md5(disk, output_path, md5)

\* the except branches without their removal of the destination
CleanupNever(disk, output_path) == FALSE

\* download_file's except branches: "if os.path.exists: os.remove"
CleanupNeeded(disk, output_path) == os_path_exists(disk, output_path)

\* download_all / download_release: the (release, image) pairs in the order
\* the nested loops reach them
RECURSIVE ImagesOfRelease(_, _)
ImagesOfRelease(release, images) ==
    IF images = <<>> THEN <<>>
    ELSE <<[release |-> release, image |-> Head(images)]>>
         \o ImagesOfRelease(release, Tail(images))

RECURSIVE ImagesOfReleases(_)
ImagesOfReleases(releases) ==
    IF releases = <<>> THEN <<>>
    ELSE ImagesOfRelease(Head(releases), Head(releases).images)
         \o ImagesOfReleases(Tail(releases))

RECURSIVE ImagesOfHardware(_)
ImagesOfHardware(hardware) ==
    IF hardware = <<>> THEN <<>>
    ELSE ImagesOfReleases(Head(hardware).releases) \o ImagesOfHardware(Tail(hardware))

RECURSIVE ImagesOfDevices(_)
ImagesOfDevices(devices) ==
    IF devices = <<>> THEN <<>>
    ELSE ImagesOfHardware(Head(devices).hardware) \o ImagesOfDevices(Tail(devices))

Traversal(idx) == ImagesOfDevices(idx.devices)

\* ------------------------------------------------------------ served input
\* main.py's output_dir
OutputDir == <<"o">>

ServedRelease ==
    [channel |-> <<"s">>, date |-> <<"d">>, httphost |-> <<"h">>,
     urlpath |-> <<"/">>, revision |-> <<"v">>]

\* FILENAME and MD5 of a served IMAGE element; an empty one is an absent attribute
Filenames == {<<>>, <<"f">>, <<"g">>}
Md5s == {<<>>, <<"A">>}
ImageSpecs == [filename : Filenames, md5 : Md5s]
ImageSeqs == UNION {[1..n -> ImageSpecs] : n \in 0..MaxImages}

ImageAttrs(im) ==
    LET dom == (IF im.filename # <<>> THEN {"FILENAME"} ELSE {})
               \cup (IF im.md5 # <<>> THEN {"MD5"} ELSE {})
    IN  [n \in dom |-> IF n = "FILENAME" THEN im.filename ELSE im.md5]

ReleaseAttrs ==
    [n \in {"CHANNEL", "DATE", "HTTPHOST", "URLPATH", "REVISION"} |->
        CASE n = "CHANNEL" -> ServedRelease.channel
          [] n = "DATE" -> ServedRelease.date
          [] n = "HTTPHOST" -> ServedRelease.httphost
          [] n = "URLPATH" -> ServedRelease.urlpath
          [] OTHER -> ServedRelease.revision]

NoAttrs == [n \in {} |-> <<>>]

\* <INDEX><DEVICE><HARDWARE> (<RELEASE ...><IMAGE .../></RELEASE>)* ...
IndexDoc(ims) ==
    [k \in 1..(3 + 2 * Len(ims)) |->
        IF k = 1 THEN Element(0, "INDEX", NoAttrs)
        ELSE IF k = 2 THEN Element(1, "DEVICE", NoAttrs)
        ELSE IF k = 3 THEN Element(2, "HARDWARE", NoAttrs)
        ELSE IF k % 2 = 0 THEN Element(3, "RELEASE", ReleaseAttrs)
        ELSE Element(4, "IMAGE", ImageAttrs(ims[(k - 3) \div 2]))]

NoDeviceDoc == <<Element(0, "INDEX", NoAttrs)>>

ServedTexts ==
    {EmptyText, MalformedText, DocText(NoDeviceDoc)}
    \cup {DocText(IndexDoc(ims)) : ims \in ImageSeqs}

ReleaseDir == os_path_dirname(construct_output_path(OutputDir, ServedRelease, [filename |-> <<"f">>]))

FilePaths ==
    {construct_output_path(OutputDir, ServedRelease, [filename |-> f]) :
        f \in Filenames \ {<<>>}}

InitialFiles == {NoEntry} \cup {FileEntry(d, r) : d \in Digests, r \in {TRUE}}
                \cup {FileEntry(<<"b">>, FALSE)}

\* the disks a run can start from: files only in directories that exist
InitialDisks ==
    {[dirs |-> (OutputDir :> base) @@ (ReleaseDir :> rel), files |-> fl] :
        base \in {"missing", "writable"},
        rel \in {"missing", "writable", "readonly", "blocked"},
        fl \in [FilePaths -> InitialFiles]}

ConsistentDisk(disk) ==
    /\ disk.dirs[OutputDir] = "missing" => disk.dirs[ReleaseDir] = "missing"
    /\ disk.dirs[ReleaseDir] \in {"missing", "blocked"} =>
          \A p \in FilePaths : disk.files[p] = NoEntry

\* -------------------------------------------------------------------- state
VARIABLES
    pc,          \* where the run is: "main", "parse", "image", "request", "stream", "exit"
    run,         \* 1: the first run; 2: the run that follows it
    xml,         \* xml_content
    index,       \* the parsed FirmwareIndex
    work,        \* the (release, image) pairs download_all goes through, in order
    i,           \* position in the traversal of the image being processed
    disk,        \* directories and files
    payload,     \* digest of the payload the current response carries
    downloaded,  \* download_file's "downloaded > 0": a chunk has been written
    hist,        \* per image of this run: what the procedure saw, did and reported
    mismatched,  \* the images the first run reported "MD5 validation failed"
    result,      \* main's return code; -1 while it has not returned
    raised,      \* an exception left main
    diskAtStart, \* the disk when the current run started
    pathArgs,    \* arguments of a construct_output_path call
    output_path  \* its result

vars == <<pc, run, xml, index, work, i, disk, payload, downloaded, hist, mismatched,
          result, raised, diskAtStart, pathArgs, output_path>>

pathVars == <<pathArgs, output_path>>

Unseen == [kind |-> "unseen", digest |-> <<>>, readable |-> FALSE]

Fresh ==
    [pre |-> Unseen, removed |-> FALSE, requests |-> 0, url |-> <<>>,
     partial |-> FALSE, report |-> "none", post |-> Unseen]

NoPathArgs == [base |-> <<>>, release |-> ServedRelease, image |-> [filename |-> <<>>]]

Init ==
    /\ pc = "main"
    /\ run = 1
    /\ xml = EmptyText
    /\ index = FirmwareIndex
    /\ work = <<>>
    /\ i = 1
    /\ disk \in {d \in InitialDisks : ConsistentDisk(d)}
    /\ payload = <<>>
    /\ downloaded = FALSE
    /\ hist = <<>>
    /\ mismatched = {}
    /\ result = -1
    /\ raised = FALSE
    /\ diskAtStart = disk
    /\ pathArgs = NoPathArgs
    /\ output_path = <<>>

Cur == work[i]
CurPath == construct_output_path(OutputDir, Cur.release, Cur.image)
CurMd5 == Cur.image.md5

\* main lines 31-36 with download_index_xml: the constructor creates the base
\* directory, the index is fetched (any failure gives the empty string)
DownloadIndex ==
    /\ pc = "main"
    /\ disk' = create_directory(disk, OutputDir)
    /\ IF run = 1 THEN xml' \in ServedTexts ELSE xml' = xml
    /\ IF xml'.kind = "empty"
       THEN pc' = "exit" /\ result' = 1
       ELSE pc' = "parse" /\ result' = result
    /\ UNCHANGED <<run, index, work, i, payload, downloaded, hist, mismatched, raised,
                   diskAtStart, pathVars>>

\* main lines 38-49: parse, give up on an index without devices, else start
\* download_all
ParseIndex ==
    /\ pc = "parse"
    /\ index' = parse_from_string(xml)
    /\ work' = Traversal(index')
    /\ IF index'.devices = <<>>
       THEN pc' = "exit" /\ result' = 1 /\ hist' = <<>>
       ELSE /\ pc' = "image"
            /\ result' = result
            /\ hist' = [k \in 1..Len(work') |-> Fresh]
    /\ i' = 1
    /\ UNCHANGED <<run, xml, disk, payload, downloaded, mismatched, raised,
                   diskAtStart, pathVars>>

\* the image's procedure is over: record the report and go to the next image
Finish(h, report, d) ==
    /\ hist' = [hist EXCEPT ![i] = [h EXCEPT !.report = report, !.post = Stat(d, CurPath)]]
    /\ disk' = d
    /\ i' = i + 1
    /\ pc' = "image"
    /\ payload' = <<>>
    /\ downloaded' = FALSE
    /\ UNCHANGED <<result, raised>>

\* an exception nothing catches leaves download_release, download_all and main
Escape(h, d) ==
    /\ hist' = [hist EXCEPT ![i] = h]
    /\ disk' = d
    /\ pc' = "exit"
    /\ raised' = TRUE
    /\ payload' = <<>>
    /\ downloaded' = FALSE
    /\ UNCHANGED <<i, result>>

\* download_release lines 62-76: paths, parent directory, the check of an
\* existing destination
BeginImage ==
    /\ pc = "image"
    /\ i <= Len(work)
    /\ LET d1 == create_directory(disk, os_path_dirname(CurPath))
           h1 == [hist[i] EXCEPT !.pre = Stat(d1, CurPath),
                                 !.url = construct_url(Cur.release, Cur.image)]
       IN  IF os_path_exists(d1, CurPath)
           THEN IF SkipDownload(d1, CurPath, CurMd5)
                THEN Finish(h1, "already", d1)
                ELSE IF CanRemove(d1, CurPath)
                     THEN /\ hist' = [hist EXCEPT ![i] = [h1 EXCEPT !.removed = TRUE]]
                          /\ disk' = os_remove(d1, CurPath)
                          /\ pc' = "request"
                          /\ UNCHANGED <<i, result, raised, payload, downloaded>>
                     ELSE Escape(h1, d1)
           ELSE /\ hist' = [hist EXCEPT ![i] = h1]
                /\ disk' = d1
                /\ pc' = "request"
                /\ UNCHANGED <<i, result, raised, payload, downloaded>>
    /\ UNCHANGED <<run, xml, index, work, mismatched, diskAtStart, pathVars>>

\* download_file's except branches and download_release line 87
FailDownload(h, d) ==
    IF CleanupNeeded(d, CurPath)
    THEN IF CanRemove(d, CurPath)
         THEN Finish(h, "failed", os_remove(d, CurPath))
         ELSE Escape(h, d)
    ELSE Finish(h, "failed", d)

\* download_file line 156: urlopen raises (connection error, timeout, HTTP error)
RequestFails ==
    /\ pc = "request"
    /\ FailDownload([hist[i] EXCEPT !.requests = @ + 1], disk)
    /\ UNCHANGED <<run, xml, index, work, mismatched, diskAtStart, pathVars>>

\* download_file lines 156-160: the response arrives, the destination is opened
RequestOk ==
    /\ pc = "request"
    /\ \E p \in Digests :
        LET h1 == [hist[i] EXCEPT !.requests = @ + 1]
        IN  IF CanOpenForWrite(disk, CurPath)
            THEN /\ hist' = [hist EXCEPT ![i] = h1]
                 /\ disk' = WriteFile(disk, CurPath, PartialDigest)
                 /\ payload' = p
                 /\ downloaded' = FALSE
                 /\ pc' = "stream"
                 /\ UNCHANGED <<i, result, raised>>
            ELSE FailDownload(h1, disk)
    /\ UNCHANGED <<run, xml, index, work, mismatched, diskAtStart, pathVars>>

\* download_file lines 162-166: a chunk is written
ReadChunk ==
    /\ pc = "stream"
    /\ downloaded' = TRUE
    /\ UNCHANGED <<pc, run, xml, index, work, i, disk, payload, hist, mismatched, result,
                   raised, diskAtStart, pathVars>>

\* download_file line 162: response.read raises
ReadError ==
    /\ pc = "stream"
    /\ FailDownload([hist[i] EXCEPT !.partial = downloaded], disk)
    /\ UNCHANGED <<run, xml, index, work, mismatched, diskAtStart, pathVars>>

\* download_file lines 163-174 and download_release lines 80-85: the payload
\* is complete, the file is closed and its digest compared
ReadEof ==
    /\ pc = "stream"
    /\ LET d1 == WriteFile(disk, CurPath, payload)
       IN  Finish(hist[i],
                  IF validate_md5(d1, CurPath, CurMd5) THEN "passed" ELSE "md5failed",
                  d1)
    /\ UNCHANGED <<run, xml, index, work, mismatched, diskAtStart, pathVars>>

\* download_all line 51 and main line 51: the loops are over
ReturnSuccess ==
    /\ pc = "image"
    /\ i > Len(work)
    /\ pc' = "exit"
    /\ result' = 0
    /\ UNCHANGED <<run, xml, index, work, i, disk, payload, downloaded, hist, mismatched,
                   raised, diskAtStart, pathVars>>

\* the tool is run again on the same index and output directory
Restart ==
    /\ pc = "exit"
    /\ run = 1
    /\ run' = 2
    /\ pc' = "main"
    /\ result' = -1
    /\ raised' = FALSE
    /\ i' = 1
    /\ hist' = <<>>
    /\ mismatched' = {k \in DOMAIN hist : hist[k].report = "md5failed"}
    /\ diskAtStart' = disk
    /\ UNCHANGED <<xml, index, work, disk, payload, downloaded, pathVars>>

Next ==
    \/ DownloadIndex
    \/ ParseIndex
    \/ BeginImage
    \/ RequestFails
    \/ RequestOk
    \/ ReadChunk
    \/ ReadError
    \/ ReadEof
    \/ ReturnSuccess
    \/ Restart

Spec == Init /\ [][Next]_vars

\* ------------------------------------------------ the parser on its own
Tags == {"DEVICE", "HARDWARE", "RELEASE", "IMAGE", "NOTE"}

\* every element carries its position in the document as its ID and REVISION
DigitChars == <<"1", "2", "3", "4", "5", "6", "7", "8", "9">>
Label(k) == <<DigitChars[k]>>
Labelled(depth, tag, k) ==
    Element(depth, tag, [n \in {"ID", "REVISION"} |-> Label(k)])

SpineTags == <<"INDEX", "DEVICE", "HARDWARE", "RELEASE">>
Spine(n) == [k \in 1..n |-> Labelled(k - 1, SpineTags[k], k)]

emptyDisk ==
    [dirs |-> (OutputDir :> "missing") @@ (ReleaseDir :> "missing"),
     files |-> [p \in FilePaths |-> NoEntry]]

InitParse ==
    /\ pc = "build"
    /\ run = 1
    /\ xml \in {DocText(Spine(n)) : n \in 1..Len(SpineTags)}
    /\ index = FirmwareIndex
    /\ work = <<>>
    /\ i = 0
    /\ disk = emptyDisk
    /\ payload = <<>>
    /\ downloaded = FALSE
    /\ hist = <<>>
    /\ mismatched = {}
    /\ result = -1
    /\ raised = FALSE
    /\ diskAtStart = disk
    /\ pathArgs = NoPathArgs
    /\ output_path = <<>>

\* one more element at the end of the document: a child of the last element,
\* or a later sibling of it or of one of its ancestors
AppendElement ==
    /\ pc = "build"
    /\ i < MaxAdded
    /\ \E t \in Tags, d \in 1..(xml.doc[Len(xml.doc)].depth + 1) :
         xml' = DocText(Append(xml.doc, Labelled(d, t, Len(xml.doc) + 1)))
    /\ i' = i + 1
    /\ UNCHANGED <<pc, run, index, work, disk, payload, downloaded, hist, mismatched,
                   result, raised, diskAtStart, pathVars>>

ParseDocument ==
    /\ pc = "build"
    /\ index' = parse_from_string(xml)
    /\ pc' = "parsed"
    /\ UNCHANGED <<run, xml, work, i, disk, payload, downloaded, hist, mismatched,
                   result, raised, diskAtStart, pathVars>>

NextParse == AppendElement \/ ParseDocument

SpecParse == InitParse /\ [][NextParse]_vars

\* --------------------------------------- path construction on its own
PathChars == {"s", Sep, "."}
Names(n) == UNION {[1..m -> PathChars] : m \in 0..n}
ShortNames == Names(1)
BaseDirs == {<<"o">>, <<"o", Sep>>}

InitPath ==
    /\ pc = "path"
    /\ run = 1
    /\ xml = EmptyText
    /\ index = FirmwareIndex
    /\ work = <<>>
    /\ i = 0
    /\ disk = emptyDisk
    /\ payload = <<>>
    /\ downloaded = FALSE
    /\ hist = <<>>
    /\ mismatched = {}
    /\ result = -1
    /\ raised = FALSE
    /\ diskAtStart = disk
    /\ pathArgs \in
         {[base |-> b,
           release |-> [channel |-> c, date |-> d, httphost |-> <<"h">>,
                        urlpath |-> <<Sep>>, revision |-> r],
           image |-> [filename |-> f]] :
             b \in BaseDirs, c \in Names(MaxNameLen), d \in ShortNames,
             r \in ShortNames, f \in Names(MaxNameLen)}
    /\ output_path = <<>>

ConstructPath ==
    /\ pc = "path"
    /\ output_path' = construct_output_path(pathArgs.base, pathArgs.release, pathArgs.image)
    /\ pc' = "pathdone"
    /\ UNCHANGED <<run, xml, index, work, i, disk, payload, downloaded, hist, mismatched,
                   result, raised, diskAtStart, pathArgs>>

NextPath == ConstructPath

SpecPath == InitPath /\ [][NextPath]_vars

\* ================================================================== claims
PathOf(k) == construct_output_path(OutputDir, work[k].release, work[k].image)
Md5Of(k) == work[k].image.md5

\* what calculate_md5 yields for an entry: its digest, or "" when it cannot be read
DigestRead(e) == IF e.kind = "file" /\ e.readable THEN e.digest ELSE <<>>

GoodFile(e, md5) == e.kind = "file" /\ e.readable /\ Lower(e.digest) = Lower(md5)

Identity(k) ==
    <<work[k].release.channel, work[k].release.date, work[k].release.revision,
      work[k].image.filename>>

\* C1: an image whose destination already holds a readable file with the
\* expected digest (compared without regard to case) gets no HTTP request, its
\* file is neither removed nor changed, it is reported "already downloaded" and
\* the run is at a later image.
C1_RoundTripSkip ==
    \A k \in DOMAIN hist :
        GoodFile(hist[k].pre, Md5Of(k)) =>
            /\ hist[k].requests = 0
            /\ ~hist[k].removed
            /\ hist[k].report = "already"
            /\ hist[k].post = hist[k].pre
            /\ i > k

C1_Witness ==
    \E k \in DOMAIN hist :
        /\ hist[k].pre = FileEntry(<<"a">>, TRUE)
        /\ Md5Of(k) = <<"A">>
        /\ hist[k].report = "already"

\* C2 (as claimed): an image whose destination exists with a digest other than
\* Image.md5 has, once its procedure or the run is over, had the destination
\* deleted and exactly one HTTP GET issued.
C2_StaleDeletedThenOneGet ==
    \A k \in DOMAIN hist :
        (/\ hist[k].pre.kind \in {"file", "dir"}
         /\ Lower(DigestRead(hist[k].pre)) # Lower(Md5Of(k))
         /\ (hist[k].report # "none" \/ pc = "exit"))
        => (hist[k].removed /\ hist[k].requests = 1)

\* C3 (as claimed): once download_all has started, the run ends with no
\* exception having left it, main returning and every image's procedure done.
C3_FailuresStayInLoop ==
    (pc = "exit" /\ index.devices # <<>>) =>
        /\ ~raised
        /\ \A k \in DOMAIN hist : hist[k].report # "none"

\* C4: an image reported "Download failed" has nothing at its destination when
\* the run goes on to the next image.
C4_NoFileAfterFailure ==
    \A k \in DOMAIN hist :
        hist[k].report = "failed" =>
            /\ hist[k].post.kind = "none"
            /\ i > k
            /\ (pc = "image" /\ i = k + 1) => ~os_path_exists(disk, PathOf(k))

C4_Witness ==
    \E k \in DOMAIN hist :
        /\ hist[k].report = "failed"
        /\ hist[k].partial
        /\ hist[k].requests = 1
        /\ pc = "image" /\ i = k + 1

\* the first half of C5: a digest mismatch after a completed transfer leaves
\* the file at the destination, after exactly one request
MismatchKept ==
    \A k \in DOMAIN hist :
        hist[k].report = "md5failed" =>
            /\ hist[k].post.kind = "file"
            /\ ~GoodFile(hist[k].post, Md5Of(k))
            /\ hist[k].requests = 1

\* the second half of C5 for image k: the next run, once done with the image,
\* has found the mismatching file, deleted it and issued one request
RedoneInNextRun(k) ==
    (run = 2 /\ k \in DOMAIN hist /\ hist[k].report # "none") =>
        /\ hist[k].pre.kind = "file"
        /\ ~GoodFile(hist[k].pre, Md5Of(k))
        /\ hist[k].removed
        /\ hist[k].requests = 1

SharesPath(k) == \E m \in 1..Len(work) : m # k /\ PathOf(m) = PathOf(k)

C6_RunOutcome ==
    pc = "exit" =>
        \/ /\ result = 1
           /\ (xml.kind # "doc" \/ parse_from_string(xml).devices = <<>>)
           /\ \A k \in DOMAIN hist : hist[k].requests = 0
        \/ /\ result = 0
           /\ xml.kind = "doc"
           /\ parse_from_string(xml).devices # <<>>
           /\ \A k \in DOMAIN hist : hist[k].report # "none"

\* the path's components, the separator splitting and repeated separators
\* counting once
RECURSIVE Split(_, _)
Split(p, cur) ==
    IF p = <<>> THEN (IF cur = <<>> THEN <<>> ELSE <<cur>>)
    ELSE IF Head(p) = Sep
         THEN (IF cur = <<>> THEN <<>> ELSE <<cur>>) \o Split(Tail(p), <<>>)
         ELSE Split(Tail(p), Append(cur, Head(p)))

Components(p) == Split(p, <<>>)

\* the directory levels a component sequence leads through
RECURSIVE Resolve(_, _)
Resolve(cs, acc) ==
    IF cs = <<>> THEN acc
    ELSE IF Head(cs) = <<".">> THEN Resolve(Tail(cs), acc)
    ELSE IF Head(cs) = <<".", ".">> /\ acc # <<>> /\ acc[Len(acc)] # <<".", ".">>
         THEN Resolve(Tail(cs), SubSeq(acc, 1, Len(acc) - 1))
         ELSE Resolve(Tail(cs), Append(acc, Head(cs)))

Levels(p) == Resolve(Components(p), <<>>)

FourLevelsUnderBase ==
    /\ Levels(output_path) =
          Levels(pathArgs.base)
          \o <<pathArgs.release.channel, pathArgs.release.date,
               pathArgs.release.revision, pathArgs.image.filename>>
    /\ StartsWithSep(output_path) = StartsWithSep(pathArgs.base)

\* a string that names one directory level
LevelName(n) ==
    /\ n # <<>>
    /\ \A k \in 1..Len(n) : n[k] # Sep
    /\ n \notin {<<".">>, <<".", ".">>}

\* C7 (as claimed): whatever the attribute strings, the path lies under baseDir
\* with exactly the levels channel / date / revision / filename.
C7_FourLevelsAlways == pc = "pathdone" => FourLevelsUnderBase

\* C7 (amended): the same, when channel, date, revision and filename each name
\* one directory level: not empty, no separator, not "." or "..".
C7_FourLevelsForLevelNames ==
    (/\ pc = "pathdone"
     /\ LevelName(pathArgs.release.channel)
     /\ LevelName(pathArgs.release.date)
     /\ LevelName(pathArgs.release.revision)
     /\ LevelName(pathArgs.image.filename))
    => FourLevelsUnderBase

C7_Witness ==
    /\ pc = "pathdone"
    /\ pathArgs.base = <<"o", Sep>>
    /\ pathArgs.release.channel = <<"s", ".">>
    /\ pathArgs.release.date = <<"s">>
    /\ pathArgs.release.revision = <<"s">>
    /\ pathArgs.image.filename = <<".", "s">>
    /\ output_path = <<"o", Sep, "s", ".", Sep, "s", Sep, "s", Sep, ".", "s">>

\* the elements with the given tag directly under element k
TaggedUnder(doc, k, tag) == {j \in ChildIdx(doc, k) : doc[j].tag = tag}

PosOf(label) == CHOOSE k \in 1..Len(DigitChars) : Label(k) = label

\* list holds one entry per element of that tag under k, in document order
Preserves(doc, k, tag, list, field) ==
    /\ Len(list) = Cardinality(TaggedUnder(doc, k, tag))
    /\ \A a \in 1..Len(list) :
          \E j \in TaggedUnder(doc, k, tag) :
              /\ list[a][field] = Label(j)
              /\ Cardinality({m \in TaggedUnder(doc, k, tag) : m < j}) = a - 1

\* C8: the parsed index has, level by level, one entry per DEVICE, HARDWARE,
\* RELEASE and IMAGE element under the matching parent, in document order;
\* children with another tag are skipped.
C8_ParsePreservesStructure ==
    pc = "parsed" =>
        /\ Preserves(xml.doc, 1, "DEVICE", index.devices, "id")
        /\ \A a \in 1..Len(index.devices) :
            LET dv == index.devices[a]
            IN  /\ Preserves(xml.doc, PosOf(dv.id), "HARDWARE", dv.hardware, "revision")
                /\ \A b \in 1..Len(dv.hardware) :
                    LET hw == dv.hardware[b]
                    IN  /\ Preserves(xml.doc, PosOf(hw.revision), "RELEASE",
                                     hw.releases, "revision")
                        /\ \A c \in 1..Len(hw.releases) :
                            LET rl == hw.releases[c]
                            IN  Preserves(xml.doc, PosOf(rl.revision), "IMAGE",
                                          rl.images, "revision")

C8_Witness ==
    /\ pc = "parsed"
    /\ Len(index.devices) = 1
    /\ Len(index.devices[1].hardware) = 1
    /\ Len(index.devices[1].hardware[1].releases) = 1
    /\ Len(index.devices[1].hardware[1].releases[1].images) = 1
    /\ index.devices[1].hardware[1].releases[1].images[1].revision = Label(6)
    /\ xml.doc[5].tag = "NOTE"
    /\ xml.doc[5].depth = 4

DistinctIdentities ==
    \A a, b \in 1..Len(work) : a # b => Identity(a) # Identity(b)

\* the destination of image k exists and its digest, as read, is Image.md5
VerifiedOn(d, k) ==
    /\ Stat(d, PathOf(k)).kind # "none"
    /\ Lower(DigestRead(Stat(d, PathOf(k)))) = Lower(Md5Of(k))

\* C9: when the identity tuples are pairwise distinct and the run before ended
\* with every destination verified, the run that follows issues no image
\* request, removes and writes no file, and reports nothing but "already
\* downloaded".
C9_IdempotentRerun ==
    (/\ run = 2
     /\ DistinctIdentities
     /\ \A k \in 1..Len(work) : VerifiedOn(diskAtStart, k))
    => /\ disk.files = diskAtStart.files
       /\ ~raised
       /\ pc \notin {"request", "stream"}
       /\ \A k \in DOMAIN hist :
            /\ hist[k].requests = 0
            /\ ~hist[k].removed
            /\ hist[k].report \in {"none", "already"}

C9_Witness ==
    /\ run = 2
    /\ pc = "exit"
    /\ result = 0
    /\ Len(work) = 2
    /\ DistinctIdentities
    /\ \A k \in 1..Len(work) :
         /\ GoodFile(Stat(diskAtStart, PathOf(k)), Md5Of(k))
         /\ hist[k].report = "already"

\* C10 (as claimed): an image reported as verified has a readable regular file
\* at its destination whose digest is Image.md5 without regard to case.
C10_VerifiedMeansGoodFile ==
    \A k \in DOMAIN hist :
        hist[k].report \in {"already", "passed"} => GoodFile(hist[k].post, Md5Of(k))

====
